---- MODULE Spec2Model ----
(***************************************************************************)
(* RealEstateDatabase (src/database.py): the listing store behind the      *)
(* real-estate bot, as a state machine.  One sqlite3 connection is shared  *)
(* by every operation; Properties / PropertyFeatures are the tables as     *)
(* that connection sees them (its open transaction included) and           *)
(* committed is what the database file durably holds.  connection is what  *)
(* connect() left behind; Districts and Features are the reference tables  *)
(* natural_language_search reads the names from.                           *)
(***************************************************************************)
EXTENDS Integers, Sequences, FiniteSets, TLC

VARIABLES Properties, PropertyFeatures, committed, last, fetches,
          connection, Districts, Features

vars == <<Properties, PropertyFeatures, committed, last, fetches,
          connection, Districts, Features>>

(* ------------------------------ bounds --------------------------------- *)

\* Most listings the store ever holds (add_property is disabled beyond it).
MaxListings == 2

\* Cap on a listing's views_count (get_property_by_id is disabled beyond it).
MaxViews == 1

\* Largest integer sqlite3 can bind.  The real limit is 2**63 - 1; the model
\* scales it down, keeping every real feature id below it.
SqliteIntMax == 3

\* Listings per page of a paged search (the bot asks for 5 at a time).
PageSize == 1

\* Most phrases in a query text.
MaxPhrases == 2

\* A Python int that does not fit an SQLite INTEGER (>= 2**63).
TooWide == SqliteIntMax + 1

(* --------------------------- reference data ---------------------------- *)

\* SQL NULL / Python None, and a non-NULL column value.
NULL == <<>>

Val(v) == <<v>>

\* PropertyTypes rows (type_id -> name): the ids natural_language_search assumes.
PropertyTypes == <<"apartment", "house", "studio">>

\* Texts and names are written in Latin transliteration, one Latin letter for
\* each Cyrillic letter of the source (j = й, q = я, w = щ, x = ь).

\* Districts rows (district_id -> name) as the schema script inserts them.
SchemaDistricts == <<"Centr", "Sever">>

\* Features rows (feature_id -> name) as the schema script inserts them.
SchemaFeatures == <<"Sad", "Bassejn">>

\* The columns add_property writes (title stands for the text, floor, year,
\* contact and coordinate columns as well: no query reads any of them).
columns == {"title", "type_id", "district_id", "price", "area", "rooms",
            "has_balcony", "has_elevator", "has_parking"}

\* The columns update_property may set.
update_columns == columns \cup {"is_available"}

(* ------------------------------ helpers -------------------------------- *)

Min(a, b) == IF a <= b THEN a ELSE b

\* The character of s at position i, and whether character c is one of chars.
Char(s, i) == SubSeq(s, i, i)

OneOf(c, chars) == \E k \in 1..Len(chars) : Char(chars, k) = c

\* SQL comparisons of a column with a bound parameter: never true on NULL.
SqlEq(x, v) == x # NULL /\ x[1] = v

SqlGe_Strict(x, v) == x # NULL /\ x[1] > v

SqlGe(x, v) == x # NULL /\ x[1] >= v

SqlLe(x, v) == x # NULL /\ x[1] <= v

\* "1 if filters[...] else 0"
Flag(b) == IF b THEN 1 ELSE 0

\* The store as one value: what commit() saves and rollback() restores.
Store(P, PF) == [Properties |-> P, PropertyFeatures |-> PF]

(* -------------------------- search_properties -------------------------- *)

\* "if 'features' in filters and filters['features']": the JOIN is added.
HasFeatureFilter(filters) ==
    "features" \in DOMAIN filters /\ filters["features"] # <<>>

\* FROM Properties p [JOIN PropertyFeatures pf ON p.property_id = pf.property_id]:
\* the rows the statement scans, in scan order (Properties by rowid; with the
\* join, PropertyFeatures by rowid, each row with its listing).
FromRows(P, PF, filters) ==
    IF HasFeatureFilter(filters)
    THEN LET joined == SelectSeq(PF, LAMBDA r : r[1] \in DOMAIN P)
         IN  [i \in 1..Len(joined) |->
                 [property_id |-> joined[i][1], feature_id |-> joined[i][2]]]
    ELSE [i \in 1..Len(P) |-> [property_id |-> i, feature_id |-> 0]]

\* The OR group over the requested feature ids.
FeatureCondition(filters, r) ==
    \E i \in 1..Len(filters["features"]) : r.feature_id = filters["features"][i]

\* conditions = ["p.is_available = 1"]: the condition every search starts with.
BaseCondition_None(p) == TRUE

BaseCondition(p) == SqlEq(p["is_available"], 1)

\* The WHERE clause: the base condition and one condition per present key.
Where(P, filters, r) ==
    LET p == P[r.property_id]
    IN  /\ BaseCondition(p)
        /\ HasFeatureFilter(filters) => FeatureCondition(filters, r)
        /\ "min_price" \in DOMAIN filters => SqlGe(p["price"], filters["min_price"])
        /\ "max_price" \in DOMAIN filters => SqlLe(p["price"], filters["max_price"])
        /\ "min_area" \in DOMAIN filters => SqlGe(p["area"], filters["min_area"])
        /\ "max_area" \in DOMAIN filters => SqlLe(p["area"], filters["max_area"])
        /\ "district_id" \in DOMAIN filters
              => SqlEq(p["district_id"], filters["district_id"])
        /\ "type_id" \in DOMAIN filters => SqlEq(p["type_id"], filters["type_id"])
        /\ "rooms" \in DOMAIN filters => SqlEq(p["rooms"], filters["rooms"])
        /\ "has_balcony" \in DOMAIN filters
              => SqlEq(p["has_balcony"], Flag(filters["has_balcony"]))
        /\ "has_elevator" \in DOMAIN filters
              => SqlEq(p["has_elevator"], Flag(filters["has_elevator"]))
        /\ "has_parking" \in DOMAIN filters
              => SqlEq(p["has_parking"], Flag(filters["has_parking"]))

\* SELECT DISTINCT p.*: the listing of each scanned row, each listing once
\* (p.* includes property_id, so equal rows are the same listing).
RECURSIVE FirstOccurrences(_)
FirstOccurrences(s) ==
    IF s = <<>> THEN <<>>
    ELSE LET front == FirstOccurrences(SubSeq(s, 1, Len(s) - 1))
             x == s[Len(s)]
         IN  IF \E i \in 1..Len(front) : front[i] = x THEN front
             ELSE Append(front, x)

Distinct_All(s) == s

Distinct(s) == FirstOccurrences(s)

\* Insert listing x into ids (sorted by date_added DESC) after every listing
\* that is not older: rows with equal date_added stay in scan order, as
\* SQLite's sorter leaves them.
RECURSIVE InsertDesc(_, _, _)
InsertDesc(P, ids, x) ==
    IF ids = <<>> THEN <<x>>
    ELSE IF P[ids[1]]["date_added"][1] >= P[x]["date_added"][1]
         THEN <<ids[1]>> \o InsertDesc(P, Tail(ids), x)
         ELSE <<x>> \o ids

RECURSIVE SortDesc(_, _)
SortDesc(P, ids) ==
    IF ids = <<>> THEN <<>>
    ELSE InsertDesc(P, SortDesc(P, SubSeq(ids, 1, Len(ids) - 1)), ids[Len(ids)])

OrderBy_ScanOrder(P, ids) == ids

\* ORDER BY p.date_added DESC
OrderBy(P, ids) == SortDesc(P, ids)

LimitOffset_EndAtLimit(s, limit, offset) ==
    SubSeq(s, offset + 1, Min(Len(s), limit))

\* LIMIT ? OFFSET ?
LimitOffset(s, limit, offset) ==
    SubSeq(s, offset + 1, Min(Len(s), offset + limit))

\* The ids the query returns, in order.
SelectIds(P, PF, filters, limit, offset) ==
    LET scanned == FromRows(P, PF, filters)
        kept == SelectSeq(scanned, LAMBDA r : Where(P, filters, r))
        ids == [i \in 1..Len(kept) |-> kept[i].property_id]
    IN  LimitOffset(OrderBy(P, Distinct(ids)), limit, offset)

\* The feature rows of a listing (SELECT f.* ... WHERE pf.property_id = ?).
FeaturesOf(PF, id) ==
    LET mine == SelectSeq(PF, LAMBDA r : r[1] = id /\ r[2] \in DOMAIN Features)
    IN  [i \in 1..Len(mine) |-> mine[i][2]]

\* The dict built for one row: its columns plus features, type and district.
property_dict(P, PF, id) ==
    [property_id |-> id,
     row |-> P[id],
     features |-> FeaturesOf(PF, id),
     property_type |-> PropertyTypes[P[id]["type_id"][1]],
     district |-> Districts[P[id]["district_id"][1]]]

\* What search_properties(filters, limit, offset) returns.
search_result(P, PF, filters, limit, offset) ==
    LET ids == SelectIds(P, PF, filters, limit, offset)
    IN  [i \in 1..Len(ids) |-> property_dict(P, PF, ids[i])]

(* ---------------------------- get_statistics --------------------------- *)

\* LIMIT 5 of the popular-features query.
TopFeatures == 5

\* The listings "WHERE is_available = 1" selects.
Available(P) == {i \in DOMAIN P : SqlEq(P[i]["is_available"], 1)}

RECURSIVE SumCol(_, _, _)
SumCol(P, ids, col) ==
    IF ids = {} THEN 0
    ELSE LET i == CHOOSE j \in ids : TRUE
         IN  P[i][col][1] + SumCol(P, ids \ {i}, col)

\* round(x, 2) of the quotient sum / count, in hundredths (ties to even).
Round2(sum, count) ==
    LET q == (sum * 100) \div count
        r == (sum * 100) % count
    IN  IF 2 * r > count \/ (2 * r = count /\ q % 2 = 1) THEN q + 1 ELSE q

\* SELECT AVG(col) ... WHERE is_available = 1: NULL when no available listing
\* has a value in col, else the quotient as <<sum, count>>.
Avg(P, col) ==
    LET ids == {i \in Available(P) : P[i][col] # NULL}
    IN  IF ids = {} THEN NULL ELSE <<SumCol(P, ids, col), Cardinality(ids)>>

\* {name: COUNT(*)} of the available listings joined to a reference table by
\* the id column col, grouped by the reference row's name.
GroupCount(P, table, col) ==
    LET joined == {i \in Available(P) :
                      P[i][col] # NULL /\ P[i][col][1] \in DOMAIN table}
        names == {table[P[i][col][1]] : i \in joined}
    IN  [n \in names |-> Cardinality({i \in joined : table[P[i][col][1]] = n})]

\* The characters of names and texts in code-point order (BINARY collation):
\* tab, space, hyphen, digits, capital letters, small letters, the letters
\* in the order of the Cyrillic alphabet.
Collation ==
    "\t -0123456789" \o "ABVGDEZIJKLMNOPRSTUFHCWYXQ" \o "abvgdezijklmnoprstufhcwyxq"

Code(c) == CHOOSE k \in 1..Len(Collation) : Char(Collation, k) = c

\* Whether name a sorts before name b.
Before(a, b) ==
    \E i \in 1..(Min(Len(a), Len(b)) + 1) :
        /\ SubSeq(a, 1, i - 1) = SubSeq(b, 1, i - 1)
        /\ IF i > Len(a) \/ i > Len(b) THEN Len(a) < Len(b)
           ELSE Code(Char(a, i)) < Code(Char(b, i))

\* COUNT(*) of the group of name n: the PropertyFeatures rows of available
\* listings whose feature is called n.
NameCount(P, PF, n) ==
    Cardinality({k \in DOMAIN PF :
                    /\ PF[k][1] \in Available(P)
                    /\ PF[k][2] \in DOMAIN Features
                    /\ Features[PF[k][2]] = n})

\* GROUP BY f.name under ORDER BY count DESC: SQLite sorts the rows for the
\* grouping by name in descending order, so the groups come out last name
\* first.
RECURSIVE GroupByNameDescending(_)
GroupByNameDescending(names) ==
    IF names = {} THEN <<>>
    ELSE LET n == CHOOSE x \in names : \A y \in names \ {x} : Before(y, x)
         IN  <<n>> \o GroupByNameDescending(names \ {n})

GroupByName(names) == GroupByNameDescending(names)

\* Insert group g into groups (sorted by count DESC) after every group whose
\* count is not smaller.
RECURSIVE InsertCount(_, _)
InsertCount(groups, g) ==
    IF groups = <<>> THEN <<g>>
    ELSE IF groups[1][2] >= g[2]
         THEN <<groups[1]>> \o InsertCount(Tail(groups), g)
         ELSE <<g>> \o groups

RECURSIVE OrderByCount(_)
OrderByCount(groups) ==
    IF groups = <<>> THEN <<>>
    ELSE InsertCount(OrderByCount(SubSeq(groups, 1, Len(groups) - 1)),
                     groups[Len(groups)])

\* GROUP BY f.name ORDER BY count DESC LIMIT 5, as <<name, count>> pairs in
\* the order of the returned dict; groups of equal count stay in the order
\* the grouping emitted them.
popular_features(P, PF) ==
    LET used == {Features[PF[k][2]] :
                    k \in {j \in DOMAIN PF : /\ PF[j][1] \in Available(P)
                                             /\ PF[j][2] \in DOMAIN Features}}
        names == GroupByName(used)
        groups == [k \in 1..Len(names) |-> <<names[k], NameCount(P, PF, names[k])>>]
    IN  LimitOffset(OrderByCount(groups), TopFeatures, 0)

\* What get_statistics() does: round(None, 2) raises TypeError when an average
\* is NULL, and "except sqlite3.Error" does not catch it.
statistics_result(P, PF) ==
    IF Avg(P, "price") = NULL \/ Avg(P, "area") = NULL
    THEN [out |-> "raise", exc |-> "TypeError"]
    ELSE [out |-> "return",
          ret |-> [total_properties |-> Cardinality(Available(P)),
                   average_price |-> Round2(Avg(P, "price")[1], Avg(P, "price")[2]),
                   average_area |-> Round2(Avg(P, "area")[1], Avg(P, "area")[2]),
                   types |-> GroupCount(P, PropertyTypes, "type_id"),
                   districts |-> GroupCount(P, Districts, "district_id"),
                   popular_features |-> popular_features(P, PF)]]

(* ----------------------- natural_language_search ----------------------- *)

Uppercase == "ABCDEFGHIJKLMNOPQRSTUVWXYZ"

Lowercase == "abcdefghijklmnopqrstuvwxyz"

\* The characters \d matches and the characters \s matches.
Digits == "0123456789"

Whitespace == " \t"

\* str.lower()
RECURSIVE lower(_)
lower(s) ==
    IF s = "" THEN ""
    ELSE LET c == Char(s, 1)
         IN  (IF OneOf(c, Uppercase)
              THEN Char(Lowercase, CHOOSE k \in 1..Len(Uppercase) : Char(Uppercase, k) = c)
              ELSE c) \o lower(SubSeq(s, 2, Len(s)))

\* "word in text"
Contains(text, word) ==
    \E i \in 1..(Len(text) - Len(word) + 1) : SubSeq(text, i, i + Len(word) - 1) = word

\* The first position from j on whose character is not one of chars (the
\* position after the text when there is none): where a greedy run ends.
RunEnd(text, j, chars) ==
    LET stops == {m \in j..Len(text) : ~OneOf(Char(text, m), chars)}
    IN  IF stops = {} THEN Len(text) + 1
        ELSE CHOOSE m \in stops : \A n \in stops : m <= n

\* Whether the pattern  w1\s+w2\s+...wn\s+(\d+)  matches at position i: the
\* position of the number, 0 when there is no match.
RECURSIVE MatchAt(_, _, _)
MatchAt(text, i, words) ==
    LET j == i + Len(words[1])
        k == RunEnd(text, j, Whitespace)
    IN  IF j - 1 > Len(text) \/ SubSeq(text, i, j - 1) # words[1] \/ k = j THEN 0
        ELSE IF Len(words) > 1 THEN MatchAt(text, k, Tail(words))
        ELSE IF k <= Len(text) /\ OneOf(Char(text, k), Digits) THEN k
        ELSE 0

\* int(digits)
RECURSIVE int(_)
int(digits) ==
    IF digits = "" THEN 0
    ELSE 10 * int(SubSeq(digits, 1, Len(digits) - 1))
         + (CHOOSE d \in 0..9 : Char(Digits, d + 1) = Char(digits, Len(digits)))

\* re.match in place of re.search: the pattern is tried at the start of the
\* text only.
re_match(words, text) ==
    IF MatchAt(text, 1, words) = 0 THEN NULL
    ELSE LET k == MatchAt(text, 1, words)
         IN  Val(int(SubSeq(text, k, RunEnd(text, k, Digits) - 1)))

\* re.search(pattern, text) and int(match.group(1)): the number of the
\* leftmost match, NULL when the pattern matches nowhere.
re_search(words, text) ==
    LET starts == {i \in 1..Len(text) : MatchAt(text, i, words) # 0}
    IN  IF starts = {} THEN NULL
        ELSE LET i == CHOOSE m \in starts : \A n \in starts : m <= n
                 k == MatchAt(text, i, words)
             IN  Val(int(SubSeq(text, k, RunEnd(text, k, Digits) - 1)))

\* One entry of the filters dict, or none.
Entry(key, value) == IF value = NULL THEN <<>> ELSE [k \in {key} |-> value[1]]

\* The if / elif chain over the type keywords (lowered: query_text.lower()).
type_keyword(lowered) ==
    IF Contains(lowered, "kvartira") THEN Val(1)
    ELSE IF Contains(lowered, "dom") THEN Val(2)
    ELSE IF Contains(lowered, "studiq") THEN Val(3)
    ELSE NULL

\* "for district in districts: if name.lower() in text.lower(): ... break"
district_match(lowered, districts) ==
    LET hits == {d \in DOMAIN districts : Contains(lowered, lower(districts[d]))}
    IN  IF hits = {} THEN NULL
        ELSE Val(CHOOSE d \in hits : \A e \in hits : d <= e)

\* "for i in range(1, 10): if f'{i}-komnatn' in ... or f'{i} komnat' in ..."
rooms_match(lowered) ==
    LET hits == {i \in 1..9 : \/ Contains(lowered, Char(Digits, i + 1) \o "-komnatn")
                              \/ Contains(lowered, Char(Digits, i + 1) \o " komnat")}
    IN  IF hits = {} THEN NULL
        ELSE Val(CHOOSE i \in hits : \A j \in hits : i <= j)

\* feature_ids: the id of every feature whose name is in the text.
feature_ids(lowered, features) ==
    LET ids == SelectSeq([f \in DOMAIN features |-> f],
                         LAMBDA f : Contains(lowered, lower(features[f])))
    IN  IF ids = <<>> THEN NULL ELSE Val(ids)

\* The flag set to whether the keyword occurs: False when it does not.
amenity_or_false(lowered, stems) ==
    Val(\E w \in stems : Contains(lowered, w))

\* An amenity keyword sets its flag to True; nothing sets it to False.
amenity(lowered, stems) ==
    IF \E w \in stems : Contains(lowered, w) THEN Val(TRUE) ELSE NULL

\* The filters natural_language_search builds from query_text and the names
\* in the Districts and Features tables; the patterns read query_text as it
\* is, everything else query_text.lower().
nl_filters(query_text, districts, features) ==
    LET lowered == lower(query_text)
    IN  Entry("type_id", type_keyword(lowered))
        @@ Entry("district_id", district_match(lowered, districts))
        @@ Entry("rooms", rooms_match(lowered))
        @@ Entry("features", feature_ids(lowered, features))
        @@ Entry("min_price", re_search(<<"ot">>, query_text))
        @@ Entry("max_price", re_search(<<"do">>, query_text))
        @@ Entry("min_area", re_search(<<"plowadx", "ot">>, query_text))
        @@ Entry("max_area", re_search(<<"plowadx", "do">>, query_text))
        @@ Entry("has_balcony", amenity(lowered, {"balkon"}))
        @@ Entry("has_elevator", amenity(lowered, {"lift"}))
        @@ Entry("has_parking", amenity(lowered, {"parkovk", "parking"}))

(* ------------------------------ mutations ------------------------------ *)

\* The columns the schema fills in on INSERT: is_available, views_count and
\* date_added (CURRENT_TIMESTAMP, here the logical time ts).
SchemaDefaults(ts) ==
    [is_available |-> Val(1), views_count |-> Val(0), date_added |-> Val(ts)]

\* PropertyFeatures holds no pair twice: a second INSERT of a pair fails with
\* sqlite3.IntegrityError.
DuplicatePair(PF, id, f) == \E k \in DOMAIN PF : PF[k] = <<id, f>>

\* "for feature_id in property_data['features']: execute(INSERT ...)": the
\* table after the loop and the exception that ended it, if any.  Binding an
\* int beyond 64 bits raises OverflowError, which is no sqlite3.Error.
RECURSIVE InsertFeatures(_, _, _)
InsertFeatures(PF, id, feats) ==
    IF feats = <<>> THEN [PropertyFeatures |-> PF, exc |-> "none"]
    ELSE IF feats[1] > SqliteIntMax
         THEN [PropertyFeatures |-> PF, exc |-> "OverflowError"]
    ELSE IF DuplicatePair(PF, id, feats[1])
         THEN [PropertyFeatures |-> PF, exc |-> "IntegrityError"]
    ELSE InsertFeatures(Append(PF, <<id, feats[1]>>), id, Tail(feats))

\* The exceptions "except sqlite3.Error" catches.
sqlite3_Error == {"IntegrityError", "OperationalError"}

\* The exception the first self.cursor.execute(...) of an operation raises:
\* the cursor is None when connect() failed (AttributeError), and no table
\* exists before the schema script ran (sqlite3.OperationalError).
execute(conn) ==
    IF conn = "None" THEN "AttributeError"
    ELSE IF conn = "fresh" THEN "OperationalError"
    ELSE "none"

\* How a mutation ends once its statements ran up to exception exc:
\*   none            commit(), return ret (done: the operation took effect)
\*   sqlite3.Error   caught: print, rollback(), return failed
\*   anything else   propagates: neither commit() nor rollback() runs
Finish(P, PF, C, exc, ret, failed) ==
    IF exc = "none"
    THEN [Properties |-> P, PropertyFeatures |-> PF, committed |-> Store(P, PF),
          done |-> TRUE, out |-> "return", ret |-> ret, printed |-> FALSE]
    ELSE IF exc \in sqlite3_Error
    THEN [Properties |-> C.Properties, PropertyFeatures |-> C.PropertyFeatures,
          committed |-> C, done |-> FALSE, out |-> "return", ret |-> failed,
          printed |-> TRUE]
    ELSE [Properties |-> P, PropertyFeatures |-> PF, committed |-> C,
          done |-> FALSE, out |-> "raise", ret |-> exc, printed |-> FALSE]

\* How a reading operation ends when a statement raised exc: "except
\* sqlite3.Error" prints and returns failed (no rollback), anything else
\* propagates.
Caught(P, PF, C, exc, failed) ==
    [Properties |-> P, PropertyFeatures |-> PF, committed |-> C,
     out |-> IF exc \in sqlite3_Error THEN "return" ELSE "raise",
     ret |-> IF exc \in sqlite3_Error THEN failed ELSE exc,
     printed |-> exc \in sqlite3_Error]

\* add_property(property_data) on tables P, PF with durable store C.
add_effect(P, PF, C, data, ts) ==
    LET id == Len(P) + 1
        row == [c \in columns |-> IF c \in DOMAIN data THEN Val(data[c]) ELSE NULL]
                  @@ SchemaDefaults(ts)
        P1 == Append(P, row)
        ins == IF "features" \in DOMAIN data /\ data["features"] # <<>>
               THEN InsertFeatures(PF, id, data["features"])
               ELSE [PropertyFeatures |-> PF, exc |-> "none"]
    IN  Finish(P1, ins.PropertyFeatures, C, ins.exc, id, NULL)

update_effect_unguarded(P, PF, C, id, data) ==
    LET PF1 == SelectSeq(PF, LAMBDA r : r[1] # id)
        ins == IF "features" \notin DOMAIN data
               THEN [PropertyFeatures |-> PF, exc |-> "none"]
               ELSE IF data["features"] # <<>>
               THEN InsertFeatures(PF1, id, data["features"])
               ELSE [PropertyFeatures |-> PF1, exc |-> "none"]
        P1 == IF id \in DOMAIN P
              THEN [P EXCEPT ![id] =
                       [c \in DOMAIN P[id] |->
                           IF c \in DOMAIN data \cap update_columns
                           THEN Val(data[c]) ELSE P[id][c]]]
              ELSE P
    IN  Finish(P1, ins.PropertyFeatures, C, ins.exc,
               DOMAIN data \cap update_columns # {}, FALSE)

\* update_property(property_id, property_data)
update_effect(P, PF, C, id, data) ==
    LET set_parts == DOMAIN data \cap update_columns
        P1 == IF id \in DOMAIN P
              THEN [P EXCEPT ![id] =
                       [c \in DOMAIN P[id] |->
                           IF c \in set_parts THEN Val(data[c]) ELSE P[id][c]]]
              ELSE P
        PF1 == SelectSeq(PF, LAMBDA r : r[1] # id)
        ins == IF "features" \notin DOMAIN data
               THEN [PropertyFeatures |-> PF, exc |-> "none"]
               ELSE IF data["features"] # <<>>
               THEN InsertFeatures(PF1, id, data["features"])
               ELSE [PropertyFeatures |-> PF1, exc |-> "none"]
    IN  IF set_parts = {}
        THEN [Properties |-> P, PropertyFeatures |-> PF, committed |-> C,
              done |-> FALSE, out |-> "return", ret |-> FALSE, printed |-> FALSE]
        ELSE Finish(P1, ins.PropertyFeatures, C, ins.exc, TRUE, FALSE)

delete_effect_purge(P, PF, C, id) ==
    LET P1 == IF id \in DOMAIN P
              THEN [P EXCEPT ![id]["is_available"] = Val(0)]
              ELSE P
    IN  Finish(P1, SelectSeq(PF, LAMBDA r : r[1] # id), C, "none", TRUE, FALSE)

\* delete_property(property_id): the soft delete.
delete_effect(P, PF, C, id) ==
    LET P1 == IF id \in DOMAIN P
              THEN [P EXCEPT ![id]["is_available"] = Val(0)]
              ELSE P
    IN  Finish(P1, PF, C, "none", TRUE, FALSE)

get_effect_every_row(P, PF, C, id) ==
    LET P1 == [i \in DOMAIN P |->
                 [P[i] EXCEPT !["views_count"] = Val(@[1] + 1)]]
    IN  Finish(P1, PF, C, "none",
               IF id \in DOMAIN P THEN property_dict(P1, PF, id) ELSE NULL, NULL)

\* get_property_by_id(property_id): count the view, commit, read the row back.
get_effect(P, PF, C, id) ==
    LET P1 == IF id \in DOMAIN P
              THEN [P EXCEPT ![id]["views_count"] = Val(@[1] + 1)]
              ELSE P
    IN  Finish(P1, PF, C, "none",
               IF id \in DOMAIN P THEN property_dict(P1, PF, id) ELSE NULL, NULL)

(* ------------------------------- inputs -------------------------------- *)

\* property_data dicts handed to add_property.
LowData ==
    [title |-> "a", type_id |-> 1, district_id |-> 1, price |-> 1, area |-> 1,
     rooms |-> 1, has_balcony |-> 0, has_elevator |-> 0, has_parking |-> 0,
     features |-> <<1>>]

HighData ==
    [title |-> "b", type_id |-> 2, district_id |-> 2, price |-> 2, area |-> 2,
     rooms |-> 2, has_balcony |-> 1, has_elevator |-> 1, has_parking |-> 1,
     features |-> <<1, 2>>]

BareData == [title |-> "c", type_id |-> 3, district_id |-> 1]

\* Inputs every statement of add_property accepts.
ValidAddInputs == {LowData, HighData, BareData}

\* ... and inputs whose feature loop fails on its second INSERT: a repeated
\* pair (sqlite3.IntegrityError) and an id beyond 64 bits (OverflowError).
AddInputs ==
    ValidAddInputs \cup {[LowData EXCEPT !.features = <<2, 2>>],
                         [LowData EXCEPT !.features = <<1, TooWide>>]}

\* property_data dicts handed to update_property.
ValidUpdateInputs == {[price |-> 2, features |-> <<2>>], [is_available |-> 1]}

UpdateInputs ==
    ValidUpdateInputs \cup {<<>>,
                            [features |-> <<2>>],
                            [price |-> 2, features |-> <<2, 2>>],
                            [price |-> 2, features |-> <<2, TooWide>>]}

\* filters dicts handed to search_properties.
FewFilters == {<<>>, [features |-> <<1, 2>>]}

FilterInputs ==
    FewFilters \cup
    {[features |-> <<>>],
     [features |-> <<2>>],
     [min_price |-> 2],
     [max_price |-> 1],
     [min_area |-> 2],
     [max_area |-> 1],
     [district_id |-> 2],
     [type_id |-> 1],
     [rooms |-> 2],
     [has_balcony |-> TRUE],
     [has_elevator |-> FALSE],
     [has_parking |-> TRUE],
     [min_price |-> 1, max_area |-> 2, type_id |-> 2, has_balcony |-> TRUE,
      features |-> <<2, 1>>]}

\* limit and offset arguments: one page, two pages, and export_to_json's
\* limit=1000 (no listing is cut off).
Unpaginated == 1000

Limits == {PageSize, 2 * PageSize, Unpaginated}

Offsets == {0, PageSize}

\* property_id arguments: the ids the store may use.
Ids == 1..MaxListings

\* Phrases a query text is made of: type, room, amenity, district and feature
\* words, numeric range phrases, and words the translator knows nothing of.
Phrases ==
    {"kvartira", "Dom", "studiq", "2-komnatnaq", "3 komnaty", "s balkonom",
     "lift", "parking", "v centre", "s bassejnom", "kupitx", "nedorogo",
     "kvartiru",
     "ot 5", "do 100000", "plowadx ot 50", "plowadx do 70"}

\* The texts of at most n phrases, a space between two phrases.
RECURSIVE Sentences(_)
Sentences(n) ==
    IF n = 0 THEN {""}
    ELSE LET shorter == Sentences(n - 1)
         IN  shorter \cup Phrases
                \cup {a \o " " \o b : a \in shorter \ {""}, b \in Phrases}

\* "2-komnatnaq kvartira s balkonom do 100000": a 2-room apartment with
\* balcony up to 100000.
ApartmentText == "2-komnatnaq kvartira s balkonom do 100000"

\* The third request the /start message of the bot suggests.
StartExample == "Kvartira do 100000 s balkonom"

\* query_text arguments.
Texts == Sentences(MaxPhrases) \cup {ApartmentText, StartExample}

FewTexts == {"", "kupitx", "Dom s bassejnom", ApartmentText}

\* What a schema script may put into the reference tables: the usual rows,
\* none, names in another case, an empty name, and features named like the
\* amenity keywords.
Schemas ==
    {[Districts |-> d, Features |-> f] :
        d \in {SchemaDistricts, <<>>, <<"CENTR">>, <<"", "Sever">>},
        f \in {SchemaFeatures, <<>>, <<"Balkon", "Lift">>}}

\* schema_file arguments: a script, or the name of no file.
SchemaFiles == Schemas \cup {NULL}

\* CURRENT_TIMESTAMP has one-second resolution: a new listing is stamped with
\* the latest date_added in the table or a later one.
Latest(P) ==
    IF P = <<>> THEN 0
    ELSE CHOOSE t \in {P[i]["date_added"][1] : i \in DOMAIN P} :
            \A i \in DOMAIN P : P[i]["date_added"][1] <= t

Timestamps(P) == {Latest(P), Latest(P) + 1} \ {0}

(* ------------------------------- actions ------------------------------- *)

\* limit=10 of search_properties, the limit natural_language_search runs with.
DefaultLimit == 10

\* A search that ends with self.conn.commit(), as the mutations do.
search_effect_committing(conn, P, PF, C, filters, limit, offset) ==
    [Properties |-> P, PropertyFeatures |-> PF, committed |-> Store(P, PF),
     out |-> "return", ret |-> search_result(P, PF, filters, limit, offset),
     printed |-> FALSE]

\* search_properties(filters, limit, offset): SELECT statements only, between
\* "try" and "except sqlite3.Error".
search_effect(conn, P, PF, C, filters, limit, offset) ==
    IF execute(conn) = "none"
    THEN [Properties |-> P, PropertyFeatures |-> PF, committed |-> C,
          out |-> "return", ret |-> search_result(P, PF, filters, limit, offset),
          printed |-> FALSE]
    ELSE Caught(P, PF, C, execute(conn), <<>>)

\* get_statistics(): SELECT statements only; "return {}" on sqlite3.Error.
statistics_effect(conn, P, PF, C) ==
    [Properties |-> P, PropertyFeatures |-> PF, committed |-> C,
     printed |-> execute(conn) \in sqlite3_Error,
     result |-> IF execute(conn) = "none" THEN statistics_result(P, PF)
                ELSE IF execute(conn) \in sqlite3_Error
                THEN [out |-> "return", ret |-> <<>>]
                ELSE [out |-> "raise", exc |-> execute(conn)]]

\* natural_language_search(query_text): the two name queries run outside any
\* try block, then search_properties(filters) with its default limit.
nls_effect(conn, P, PF, C, filters) ==
    IF execute(conn) = "none"
    THEN search_effect(conn, P, PF, C, filters, DefaultLimit, 0)
    ELSE [Properties |-> P, PropertyFeatures |-> PF, committed |-> C,
          out |-> "raise", ret |-> execute(conn), printed |-> FALSE]

\* The tables, the durable store and the call's outcome after an operation.
Apply(call, eff) ==
    /\ Properties' = eff.Properties
    /\ PropertyFeatures' = eff.PropertyFeatures
    /\ committed' = eff.committed
    /\ last' = call @@ [out |-> eff.out, ret |-> eff.ret, printed |-> eff.printed]
    /\ UNCHANGED <<connection, Districts, Features>>

\* The store after __init__ and init_database: connected, the schema and its
\* reference rows in place, no listing yet.
Init ==
    /\ Properties = <<>>
    /\ PropertyFeatures = <<>>
    /\ committed = Store(<<>>, <<>>)
    /\ fetches = [i \in Ids |-> 0]
    /\ last = [op |-> "init"]
    /\ connection = "ready"
    /\ Districts = SchemaDistricts
    /\ Features = SchemaFeatures

AddProperty(inputs) ==
    \E data \in inputs, ts \in Timestamps(Properties) :
        /\ Len(Properties) < MaxListings
        /\ Apply([op |-> "add_property", data |-> data, ts |-> ts],
                 IF execute(connection) = "none"
                 THEN add_effect(Properties, PropertyFeatures, committed, data, ts)
                 ELSE Finish(Properties, PropertyFeatures, committed,
                             execute(connection), NULL, NULL))
        /\ UNCHANGED fetches

UpdateProperty(inputs) ==
    \E id \in DOMAIN Properties, data \in inputs :
        /\ Apply([op |-> "update_property", id |-> id, data |-> data],
                 IF execute(connection) = "none"
                    \/ DOMAIN data \cap update_columns = {}
                 THEN update_effect(Properties, PropertyFeatures, committed, id, data)
                 ELSE Finish(Properties, PropertyFeatures, committed,
                             execute(connection), FALSE, FALSE))
        /\ UNCHANGED fetches

SearchProperties(filterSet) ==
    \E filters \in filterSet, limit \in Limits, offset \in Offsets :
        /\ Apply([op |-> "search_properties", filters |-> filters,
                  limit |-> limit, offset |-> offset],
                 search_effect(connection, Properties, PropertyFeatures, committed,
                               filters, limit, offset))
        /\ UNCHANGED fetches

NaturalLanguageSearch(texts) ==
    \E text \in texts :
        LET filters == nl_filters(text, Districts, Features)
        IN  /\ Apply(IF execute(connection) = "none"
                     THEN [op |-> "natural_language_search", text |-> text,
                           filters |-> filters]
                     ELSE [op |-> "natural_language_search", text |-> text],
                     nls_effect(connection, Properties, PropertyFeatures,
                                committed, filters))
            /\ UNCHANGED fetches

add_property == AddProperty(AddInputs)

update_property == UpdateProperty(UpdateInputs)

delete_property ==
    \E id \in Ids :
        /\ Apply([op |-> "delete_property", id |-> id],
                 IF execute(connection) = "none"
                 THEN delete_effect(Properties, PropertyFeatures, committed, id)
                 ELSE Finish(Properties, PropertyFeatures, committed,
                             execute(connection), FALSE, FALSE))
        /\ UNCHANGED fetches

get_property_by_id ==
    \E id \in Ids :
        /\ id \in DOMAIN Properties => Properties[id]["views_count"][1] < MaxViews
        /\ Apply([op |-> "get_property_by_id", id |-> id],
                 IF execute(connection) = "none"
                 THEN get_effect(Properties, PropertyFeatures, committed, id)
                 ELSE Caught(Properties, PropertyFeatures, committed,
                             execute(connection), NULL))
        /\ fetches' = IF id \in DOMAIN Properties /\ execute(connection) = "none"
                      THEN [fetches EXCEPT ![id] = @ + 1]
                      ELSE fetches

search_properties == SearchProperties(FewFilters)

natural_language_search == NaturalLanguageSearch(FewTexts)

\* init_database(schema_file), run on a database that has no table yet (what
\* a second run does is the script's matter): open() fails on a missing
\* file, executescript() on a missing connection; else the script creates
\* the tables and their reference rows and is committed.
init_database ==
    \E schema \in SchemaFiles :
        /\ connection # "ready"
        /\ IF schema = NULL
           THEN /\ last' = [op |-> "init_database", out |-> "return",
                            ret |-> FALSE, printed |-> TRUE]
                /\ UNCHANGED <<connection, Districts, Features>>
           ELSE IF connection = "None"
           THEN /\ last' = [op |-> "init_database", out |-> "raise",
                            ret |-> "AttributeError", printed |-> FALSE]
                /\ UNCHANGED <<connection, Districts, Features>>
           ELSE /\ last' = [op |-> "init_database", out |-> "return",
                            ret |-> TRUE, printed |-> TRUE]
                /\ connection' = "ready"
                /\ Districts' = schema.Districts
                /\ Features' = schema.Features
        /\ UNCHANGED <<Properties, PropertyFeatures, committed, fetches>>

get_statistics ==
    LET eff == statistics_effect(connection, Properties, PropertyFeatures, committed)
    IN  /\ Properties' = eff.Properties
        /\ PropertyFeatures' = eff.PropertyFeatures
        /\ committed' = eff.committed
        /\ last' = [op |-> "get_statistics", printed |-> eff.printed] @@ eff.result
        /\ UNCHANGED <<fetches, connection, Districts, Features>>

Next ==
    \/ add_property
    \/ update_property
    \/ delete_property
    \/ get_property_by_id
    \/ search_properties
    \/ get_statistics

\* Every operation, with inputs that make mutations fail part-way.
Spec == Init /\ [][Next]_vars

\* The catalogue under valid mutations, searched with every filter.
add_valid_property == AddProperty(ValidAddInputs)

update_valid_property == UpdateProperty(ValidUpdateInputs)

search_any_filter == SearchProperties(FilterInputs)

SearchNext ==
    \/ add_valid_property
    \/ update_valid_property
    \/ delete_property
    \/ search_any_filter

SearchSpec == Init /\ [][SearchNext]_vars

\* The store right after __init__: connect() succeeded on a database without
\* tables, or failed and left connection and cursor None.
Constructed ==
    /\ Properties = <<>>
    /\ PropertyFeatures = <<>>
    /\ committed = Store(<<>>, <<>>)
    /\ fetches = [i \in Ids |-> 0]
    /\ last = [op |-> "init"]
    /\ connection \in {"None", "fresh"}
    /\ Districts = <<>>
    /\ Features = <<>>

QueryNext ==
    \/ init_database
    \/ search_properties
    \/ natural_language_search

\* The query path from construction on: schema load, direct search and
\* natural-language search, over any reference tables.
QuerySpec == Constructed /\ [][QueryNext]_vars

\* A request arrives with its text while the store holds some schema's
\* reference tables ...
Requested ==
    /\ Properties = <<>>
    /\ PropertyFeatures = <<>>
    /\ committed = Store(<<>>, <<>>)
    /\ fetches = [i \in Ids |-> 0]
    /\ connection = "ready"
    /\ \E schema \in Schemas :
          /\ Districts = schema.Districts
          /\ Features = schema.Features
    /\ \E text \in Texts : last = [op |-> "request", text |-> text]

\* ... and is answered by natural_language_search.
answer_request ==
    /\ last.op = "request"
    /\ NaturalLanguageSearch({last.text})

\* The translator as a function of the text and the reference tables.
TranslateSpec == Requested /\ [][answer_request]_vars

(* ------------------------------- claims -------------------------------- *)

\* The ids of the dicts a search returned, and the set of them.
RetIds(ret) == [k \in DOMAIN ret |-> ret[k].property_id]

RetIdSet(ret) == {ret[k].property_id : k \in DOMAIN ret}

IsAvailable(i) == Properties[i]["is_available"] = Val(1)

HasFeature(i, f) == \E k \in DOMAIN PropertyFeatures : PropertyFeatures[k] = <<i, f>>

\* C1: a listing whose availability flag is false never appears in a
\* search_properties result, whatever the filter, limit and offset, and is
\* counted in no figure of get_statistics: the total, the per-type and
\* per-district counts and the popular-feature counts are counts of available
\* listings only.
C1_UnavailableNeverListedOrCounted ==
    /\ last.op = "search_properties"
          => \A i \in RetIdSet(last.ret) : IsAvailable(i)
    /\ (last.op = "get_statistics" /\ last.out = "return")
          => LET live == {i \in DOMAIN Properties : IsAvailable(i)}
                 st == last.ret
             IN  /\ st.total_properties = Cardinality(live)
                 /\ \A n \in DOMAIN st.types :
                       st.types[n] = Cardinality(
                           {i \in live : PropertyTypes[Properties[i]["type_id"][1]] = n})
                 /\ \A n \in DOMAIN st.districts :
                       st.districts[n] = Cardinality(
                           {i \in live : Districts[Properties[i]["district_id"][1]] = n})
                 /\ \A k \in DOMAIN st.popular_features :
                       \E f \in DOMAIN Features :
                          /\ Features[f] = st.popular_features[k][1]
                          /\ st.popular_features[k][2]
                                = Cardinality({i \in live : HasFeature(i, f)})

\* C1 witness: statistics were returned while a delisted listing that carries
\* a feature sits in the store beside an available one.
C1_Witness ==
    /\ last.op = "get_statistics"
    /\ last.out = "return"
    /\ \E i \in DOMAIN Properties : ~IsAvailable(i) /\ HasFeature(i, 1)
    /\ \E i \in DOMAIN Properties : IsAvailable(i)

\* The claimed meaning of a filter: listing i meets every field present in f
\* (bounds inclusive, equalities exact, amenity flags as 0/1) and, when f
\* names features, carries at least one of them.
Meets(i, f) ==
    LET p == Properties[i]
    IN  /\ "min_price" \in DOMAIN f => (p["price"] # NULL /\ p["price"][1] >= f["min_price"])
        /\ "max_price" \in DOMAIN f => (p["price"] # NULL /\ p["price"][1] <= f["max_price"])
        /\ "min_area" \in DOMAIN f => (p["area"] # NULL /\ p["area"][1] >= f["min_area"])
        /\ "max_area" \in DOMAIN f => (p["area"] # NULL /\ p["area"][1] <= f["max_area"])
        /\ \A k \in DOMAIN f \cap {"district_id", "type_id", "rooms"} :
              p[k] = Val(f[k])
        /\ \A k \in DOMAIN f \cap {"has_balcony", "has_elevator", "has_parking"} :
              p[k] = Val(IF f[k] THEN 1 ELSE 0)
        /\ ("features" \in DOMAIN f /\ f["features"] # <<>>)
              => \E k \in DOMAIN f["features"] : HasFeature(i, f["features"][k])

Matching(f) == {i \in DOMAIN Properties : IsAvailable(i) /\ Meets(i, f)}

\* C2: on an unchanged store, the page (limit=PageSize, offset=0) followed by
\* the page (limit=PageSize, offset=PageSize) is the sequence that
\* (limit=2*PageSize, offset=0) returns; every call returns limit listings, or
\* fewer only when the matches run out, and skips the first offset matches of
\* the ordered result.
C2_Pagination ==
    last.op = "search_properties" =>
        LET f == last.filters
            left == Cardinality(Matching(f)) - last.offset
            whole == search_result(Properties, PropertyFeatures, f, Unpaginated, 0)
        IN  /\ Len(last.ret) = Min(last.limit, IF left > 0 THEN left ELSE 0)
            /\ last.ret = SubSeq(whole, last.offset + 1, last.offset + Len(last.ret))
            /\ (last.limit = 2 * PageSize /\ last.offset = 0)
                  => last.ret
                        = search_result(Properties, PropertyFeatures, f, PageSize, 0)
                          \o search_result(Properties, PropertyFeatures, f,
                                           PageSize, PageSize)

\* C2 witness: a two-page search came back full, its two listings stamped
\* with the same creation time.
C2_Witness ==
    /\ last.op = "search_properties"
    /\ last.limit = 2 * PageSize
    /\ last.offset = 0
    /\ Len(last.ret) = 2 * PageSize
    /\ last.ret[1].row["date_added"] = last.ret[2].row["date_added"]

\* How many times listing i occurs in a returned sequence.
Occurrences(ret, i) == Cardinality({k \in DOMAIN ret : ret[k].property_id = i})

\* C3: under a filter that names only a feature set, every available listing
\* associated with at least one of the named features (one of them or
\* several) is returned exactly once by the unpaginated search, never once
\* per matching feature, and a listing associated with none of them is not
\* returned; no page of the search holds a listing twice.
C3_FeatureSetOnce ==
    (last.op = "search_properties" /\ DOMAIN last.filters = {"features"}
        /\ last.filters["features"] # <<>>)
    => LET wanted == {last.filters["features"][k] : k \in DOMAIN last.filters["features"]}
       IN  \A i \in DOMAIN Properties :
              /\ Occurrences(last.ret, i) <= 1
              /\ (\A f \in wanted : ~HasFeature(i, f)) => Occurrences(last.ret, i) = 0
              /\ (last.limit = Unpaginated /\ last.offset = 0 /\ IsAvailable(i)
                     /\ \E f \in wanted : HasFeature(i, f))
                    => Occurrences(last.ret, i) = 1

\* C3 witness: the search for features {1, 2} returned a listing that has
\* both, while a listing with neither is in the store.
C3_Witness ==
    /\ last.op = "search_properties"
    /\ last.filters = [features |-> <<1, 2>>]
    /\ last.limit = Unpaginated
    /\ last.offset = 0
    /\ \E i \in RetIdSet(last.ret) : HasFeature(i, 1) /\ HasFeature(i, 2)
    /\ \E i \in DOMAIN Properties :
          IsAvailable(i) /\ ~HasFeature(i, 1) /\ ~HasFeature(i, 2)

DateAdded(i) == Properties[i]["date_added"][1]

\* C4: with no filter field set, search_properties returns the limit most
\* recently added available listings, newest first: min(limit, number of
\* available listings) of them, each once, and no available listing left out
\* is newer than a returned one.
C4_EmptyFilterMostRecent ==
    (last.op = "search_properties" /\ DOMAIN last.filters = {} /\ last.offset = 0)
    => LET got == RetIds(last.ret)
           live == {i \in DOMAIN Properties : IsAvailable(i)}
       IN  /\ Len(got) = Min(last.limit, Cardinality(live))
           /\ \A k \in DOMAIN got : got[k] \in live
           /\ \A j, k \in DOMAIN got : j < k =>
                 (got[j] # got[k] /\ DateAdded(got[j]) >= DateAdded(got[k]))
           /\ \A i \in live : \A k \in DOMAIN got :
                 i \notin RetIdSet(last.ret) => DateAdded(i) <= DateAdded(got[k])

\* C4 witness: an unfiltered one-page search returned the newer listing and
\* left an older available one out.
C4_Witness ==
    /\ last.op = "search_properties"
    /\ DOMAIN last.filters = {}
    /\ last.limit = PageSize
    /\ last.offset = 0
    /\ Len(last.ret) = PageSize
    /\ \E i \in DOMAIN Properties :
          /\ IsAvailable(i)
          /\ i \notin RetIdSet(last.ret)
          /\ DateAdded(i) < DateAdded(last.ret[1].property_id)

\* C5: the unpaginated result of search_properties is exactly the set of
\* available listings that meet every present filter field at once and, when
\* a non-empty feature set is given, carry at least one of its features; an
\* absent field constrains nothing.
C5_ResultIsConjunction ==
    (last.op = "search_properties" /\ last.limit = Unpaginated /\ last.offset = 0)
    => RetIdSet(last.ret) = Matching(last.filters)

\* C5 witness: a filter with several fields returned one listing and kept
\* another available listing out.
C5_Witness ==
    /\ last.op = "search_properties"
    /\ Cardinality(DOMAIN last.filters) > 2
    /\ last.limit = Unpaginated
    /\ last.offset = 0
    /\ last.ret # <<>>
    /\ \E i \in DOMAIN Properties : IsAvailable(i) /\ i \notin RetIdSet(last.ret)

\* A step that is the call delete_property(id) on a listing in the store.
DeleteStep == last'.op = "delete_property" /\ last'.id \in DOMAIN Properties

\* A step that is get_property_by_id(id) right after delete_property(id) on
\* a listing in the store.
LookupAfterDelete ==
    /\ last.op = "delete_property"
    /\ last.id \in DOMAIN Properties
    /\ last'.op = "get_property_by_id"
    /\ last'.id = last.id

C7_EmptyUpdateRejected ==
    [][(last'.op = "update_property"
           /\ DOMAIN last'.data \cap update_columns = {})
          => /\ last'.out = "return"
             /\ last'.ret = FALSE
             /\ UNCHANGED <<Properties, PropertyFeatures, committed>>]_vars

\* C7 witness: an update that carried only features [2] was refused on a
\* listing whose associations differ from it.
C7_Witness ==
    /\ last.op = "update_property"
    /\ last.data = [features |-> <<2>>]
    /\ last.out = "return"
    /\ last.ret = FALSE
    /\ FeaturesOf(PropertyFeatures, last.id) # <<2>>

\* C8: with no available listing in the store, get_statistics returns
\* normally with total 0 and a sentinel (0 or null) for both averages.
C8_EmptyStatisticsSentinel ==
    (last.op = "get_statistics" /\ Available(Properties) = {})
    => /\ last.out = "return"
       /\ last.ret.total_properties = 0
       /\ last.ret.average_price \in {0, NULL}
       /\ last.ret.average_area \in {0, NULL}

Whole(C, call) ==
    CASE call.op = "add_property" ->
            add_effect(C.Properties, C.PropertyFeatures, C, call.data, call.ts).committed
      [] call.op = "update_property" ->
            update_effect(C.Properties, C.PropertyFeatures, C, call.id, call.data).committed
      [] call.op = "delete_property" ->
            delete_effect(C.Properties, C.PropertyFeatures, C, call.id).committed
      [] call.op = "get_property_by_id" ->
            get_effect(C.Properties, C.PropertyFeatures, C, call.id).committed
      [] OTHER -> C

\* C10: every mutation is atomic: an operation changes the durable store by
\* the whole of its own changes or not at all, so nothing a failed mutation
\* wrote is made permanent by a later operation's commit.
C10_MutationsAtomic ==
    [][committed' = committed \/ committed' = Whole(committed, last')]_vars

\* C11: when the store is unavailable (connect() failed, or the statement
\* fails because no table exists), a direct search and a natural-language
\* search both return an empty sequence and report the failure; no exception
\* leaves them.
C11_UnavailableStoreDegrades ==
    (last.op \in {"search_properties", "natural_language_search"}
        /\ connection # "ready")
    => /\ last.out = "return"
       /\ last.ret = <<>>
       /\ last.printed

\* How often the feature called n is used on available listings.
Usage(n) ==
    Cardinality({k \in DOMAIN PropertyFeatures :
                    /\ IsAvailable(PropertyFeatures[k][1])
                    /\ PropertyFeatures[k][2] \in DOMAIN Features
                    /\ Features[PropertyFeatures[k][2]] = n})

\* Whether the feature called a ranks before the one called b: used more
\* often or, at equal counts, first in name order.
Ranks(a, b) == Usage(a) > Usage(b) \/ (Usage(a) = Usage(b) /\ Before(a, b))

\* C12: get_statistics reports the 5 most used features of the available
\* listings (all of them when fewer are in use), most used first, and among
\* features of equal count the name order decides which are reported and in
\* which order.
C12_PopularFeaturesByCountThenName ==
    (last.op = "get_statistics" /\ last.out = "return")
    => LET top == last.ret.popular_features
           used == {Features[f] : f \in {g \in DOMAIN Features : Usage(Features[g]) > 0}}
           shown == {top[k][1] : k \in DOMAIN top}
       IN  /\ Len(top) = Min(TopFeatures, Cardinality(used))
           /\ \A k \in DOMAIN top : top[k][1] \in used /\ top[k][2] = Usage(top[k][1])
           /\ \A j, k \in DOMAIN top : j < k => Ranks(top[j][1], top[k][1])
           /\ \A n \in used \ shown : \A m \in shown : Ranks(m, n)

\* A natural_language_search call that got as far as its search.
Translated == last.op = "natural_language_search" /\ last.out = "return"

\* Whether a name of the reference table occurs in the text, in any case.
NamedIn(text, table) ==
    \E k \in DOMAIN table : Contains(lower(text), lower(table[k]))

RangePhrase(text, word) ==
    \E i \in 1..Len(text) : MatchAt(lower(text), i, <<word>>) # 0

\* A text with no type keyword, no district name, no room-count pattern, no
\* feature name, no numeric range phrase and no amenity keyword.
Unrecognisable(text) ==
    /\ \A w \in {"kvartira", "dom", "studiq", "balkon", "lift", "parkovk", "parking"} :
          ~Contains(lower(text), w)
    /\ \A i \in 1..9 : \A w \in {"-komnatn", " komnat"} :
          ~Contains(lower(text), Char(Digits, i + 1) \o w)
    /\ ~NamedIn(text, Districts)
    /\ ~NamedIn(text, Features)
    /\ ~RangePhrase(text, "ot")
    /\ ~RangePhrase(text, "do")

\* C14: a text with nothing recognisable in it is translated to the empty
\* filter, whatever the Districts and Features tables hold.
C14_NothingRecognisedEmptyFilter ==
    (Translated /\ Unrecognisable(last.text)) => DOMAIN last.filters = {}

\* C14 witness: a text of two unknown words, one of them close to a range
\* phrase, was translated over tables that hold names.
C14_Witness ==
    /\ Translated
    /\ last.text = "kupitx nedorogo"
    /\ Unrecognisable(last.text)
    /\ Districts # <<>>
    /\ Features # <<>>
    /\ DOMAIN last.filters = {}

\* Whether the text holds a phrase "plowadx word N" (an area phrase), and
\* whether it holds a phrase "word N" that is not the tail of an area phrase.
AreaPhrase(text, word) ==
    \E h \in 1..Len(text) : MatchAt(text, h, <<"plowadx", word>>) # 0

PlainPhrase(text, word) ==
    \E i \in 1..Len(text) :
        /\ MatchAt(text, i, <<word>>) # 0
        /\ \A h \in 1..Len(text) :
              MatchAt(text, h, <<"plowadx", word>>) # MatchAt(text, i, <<word>>)

\* C15: each numeric range phrase sets its own field and no other: min_price
\* is set exactly by a plain "ot N", max_price by a plain "do N", min_area by
\* "plowadx ot N" and max_area by "plowadx do N"; a text whose only numeric
\* phrase is an area phrase has both price bounds unset.
C15_RangePhraseOwnField ==
    Translated =>
        /\ "min_price" \in DOMAIN last.filters <=> PlainPhrase(last.text, "ot")
        /\ "max_price" \in DOMAIN last.filters <=> PlainPhrase(last.text, "do")
        /\ "min_area" \in DOMAIN last.filters <=> AreaPhrase(last.text, "ot")
        /\ "max_area" \in DOMAIN last.filters <=> AreaPhrase(last.text, "do")

\* C16: search_properties and get_statistics only read: a call of either
\* leaves the listings, the feature links and the reference tables as they
\* were and commits nothing, so an open transaction stays open.
C16_QueriesReadOnly ==
    [][last'.op \in {"search_properties", "get_statistics"}
        => /\ Properties' = Properties
           /\ PropertyFeatures' = PropertyFeatures
           /\ committed' = committed
           /\ Districts' = Districts
           /\ Features' = Features]_vars

\* C16 witness: a search answered while a transaction was open; what it read
\* is still uncommitted after it.
C16_Witness ==
    /\ last.op = "search_properties"
    /\ last.out = "return"
    /\ last.ret # <<>>
    /\ committed # Store(Properties, PropertyFeatures)

====
